---- MODULE Spec2Model ----
(***************************************************************************)
(* wxTextEntryBase (wx/textentry.h): the text-entry interface and its      *)
(* generic suppression of text-changed events.                             *)
(*                                                                         *)
(* The entry's state is the backend's text buffer and selection, the       *)
(* editable flag, the counter m_eventsBlock, the backend's "native events  *)
(* enabled" flag driven by the hook EnableTextChangedEvents, and the stack *)
(* of live EventsSuppressor objects.  Two logs record what the last        *)
(* operation did: events (the buffer as seen by each text-updated event    *)
(* it dispatched) and hooks (the argument of each EnableTextChangedEvents  *)
(* call it made).                                                          *)
(***************************************************************************)
EXTENDS Integers, Sequences, FiniteSets

VARIABLES
    buf,            \* the backend's text, a sequence of characters
    selFrom,        \* selection start; selFrom = selTo is "no selection",
    selTo,          \*   and then both are the insertion point
    editable,       \* IsEditable()
    m_eventsBlock,  \* unsigned m_eventsBlock, as two 16-bit halves
    enabled,        \* last argument given to EnableTextChangedEvents
    guards,         \* m_suppress of each live EventsSuppressor, innermost last
    events,         \* buffer seen by each event dispatched by the last operation
    hooks,          \* EnableTextChangedEvents arguments of the last operation
    fwdNet,         \* history: ForwardEnable(false) calls minus ForwardEnable(true) calls
    lastOp,         \* history: the last operation and its arguments
    pre             \* history: the counter and the backend flag before the
                    \*   last operation

vars == <<buf, selFrom, selTo, editable, m_eventsBlock, enabled, guards,
          events, hooks, fwdNet, lastOp, pre>>

----------------------------------------------------------------------------
(* Bounds of the model *)

\* longest buffer explored
MaxLen == 2
\* longest text argument explored
MaxText == 1
\* largest counter value explored
MaxDepth == 2
\* most EventsSuppressor objects alive at once
MaxGuards == 2

Alphabet == {"a", "b"}

Texts(n) == UNION {[1..k -> Alphabet] : k \in 0..n}

----------------------------------------------------------------------------
(* unsigned arithmetic: a 32-bit unsigned is hi * 2^16 + lo *)

Half == 65536

Zero == [hi |-> 0, lo |-> 0]

\* the unsigned whose value is the small natural n
U(n) == [hi |-> 0, lo |-> n]

\* ++x on an unsigned: wraps from 2^32 - 1 to 0
Inc(x) ==
    IF x.lo = Half - 1
    THEN [hi |-> (x.hi + 1) % Half, lo |-> 0]
    ELSE [hi |-> x.hi, lo |-> x.lo + 1]

\* --x on an unsigned: wraps from 0 to 2^32 - 1
Dec(x) ==
    IF x.lo = 0
    THEN [hi |-> (x.hi - 1) % Half, lo |-> Half - 1]
    ELSE [hi |-> x.hi, lo |-> x.lo - 1]

\* the unsigned congruent to the integer n (|n| < 2^16) modulo 2^32
UInt(n) == IF n >= 0 THEN U(n) ELSE [hi |-> Half - 1, lo |-> Half + n]

\* the counter values the model explores: 0..MaxDepth, and 2^32 - 1 (one
\* decrement below 0)
CounterWindow == {UInt(n) : n \in -1..MaxDepth}

----------------------------------------------------------------------------
(* The entry as a record, so that a method is a function of the entry *)

Cur ==
    [buf |-> buf, selFrom |-> selFrom, selTo |-> selTo, editable |-> editable,
     m_eventsBlock |-> m_eventsBlock, enabled |-> enabled,
     events |-> events, hooks |-> hooks]

\* the entry at the start of an operation: the logs are those of the operation
Start == [Cur EXCEPT !.events = <<>>, !.hooks = <<>>]

Prefix(s, n) == SubSeq(s, 1, n)
Suffix(s, n) == SubSeq(s, n + 1, Len(s))

----------------------------------------------------------------------------
(* Event plumbing *)

SetValue_NoEvent == 0
SetValue_SendEvent == 1

\* a variant that forgets the counter: events are always allowed
EventsAllowed_Always(s) == TRUE

\* bool EventsAllowed() const { return m_eventsBlock == 0; }
EventsAllowed(s) == s.m_eventsBlock = Zero

\* SendTextUpdatedEvent(): the event reaches the editable window, which sees
\* the buffer as it is at that moment
SendTextUpdatedEvent(s) == [s EXCEPT !.events = Append(@, s.buf)]

\* a variant that sends without asking EventsAllowed()
SendTextUpdatedEventIfAllowed_Unchecked(s) == SendTextUpdatedEvent(s)

SendTextUpdatedEventIfAllowed(s) ==
    IF EventsAllowed(s) THEN SendTextUpdatedEvent(s) ELSE s

\* the hook; the base class does nothing, a backend that overrides it turns
\* its native notifications on or off: the model records the call
EnableTextChangedEvents(s, enable) ==
    [s EXCEPT !.enabled = enable, !.hooks = Append(@, enable)]

\* a variant that keeps a flag instead of a count: m_eventsBlock = 1
SuppressTextChangedEvents_Flag(s) ==
    LET t == [s EXCEPT !.m_eventsBlock = U(1)]
    IN  IF s.m_eventsBlock = Zero THEN EnableTextChangedEvents(t, FALSE) ELSE t

\* if ( !m_eventsBlock++ ) EnableTextChangedEvents(false);
SuppressTextChangedEvents(s) ==
    LET t == [s EXCEPT !.m_eventsBlock = Inc(@)]
    IN  IF s.m_eventsBlock = Zero THEN EnableTextChangedEvents(t, FALSE) ELSE t

\* if ( !--m_eventsBlock ) EnableTextChangedEvents(true);
ResumeTextChangedEvents(s) ==
    LET t == [s EXCEPT !.m_eventsBlock = Dec(@)]
    IN  IF t.m_eventsBlock = Zero THEN EnableTextChangedEvents(t, TRUE) ELSE t

ForwardEnableTextChangedEvents(s, enable) ==
    IF enable THEN ResumeTextChangedEvents(s) ELSE SuppressTextChangedEvents(s)

\* EventsSuppressor(text, suppress)
EventsSuppressorCtor(s, suppress) ==
    IF suppress THEN SuppressTextChangedEvents(s) ELSE s

\* a variant that resumes whatever m_suppress is
EventsSuppressorDtor_Always(s, m_suppress) == ResumeTextChangedEvents(s)

\* ~EventsSuppressor()
EventsSuppressorDtor(s, m_suppress) ==
    IF m_suppress THEN ResumeTextChangedEvents(s) ELSE s

----------------------------------------------------------------------------
(* Backend primitives (pure virtual in the interface) *)

\* SetSelection(from, to); (-1, -1) selects everything
SetSelection(s, from, to) ==
    IF from = -1 /\ to = -1
    THEN [s EXCEPT !.selFrom = 0, !.selTo = Len(s.buf)]
    ELSE [s EXCEPT !.selFrom = from, !.selTo = to]

\* SetInsertionPoint(pos) removes any selection; -1 is the end of the text
SetInsertionPoint(s, pos) ==
    LET p == IF pos = -1 THEN Len(s.buf) ELSE pos
    IN  [s EXCEPT !.selFrom = p, !.selTo = p]

\* WriteText(text): inserts at the insertion point, replacing the selection;
\* the change is notified unless events are blocked
WriteText(s, text) ==
    SendTextUpdatedEventIfAllowed(
        [s EXCEPT !.buf = Prefix(s.buf, s.selFrom) \o text \o Suffix(s.buf, s.selTo),
                  !.selFrom = s.selFrom + Len(text),
                  !.selTo = s.selFrom + Len(text)])

\* Remove(from, to): deletes [from, to); the change is notified unless blocked
Remove(s, from, to) ==
    SendTextUpdatedEventIfAllowed(
        [s EXCEPT !.buf = Prefix(s.buf, from) \o Suffix(s.buf, to),
                  !.selFrom = from,
                  !.selTo = from])

SetEditable(s, e) == [s EXCEPT !.editable = e]

----------------------------------------------------------------------------
(* The interface's own methods.  SetValue, ChangeValue, Clear, SelectAll    *)
(* and SetInsertionPointEnd are defined inline in the header; GetValue,    *)
(* DoSetValue, AppendText and Replace are defined out of line and follow    *)
(* their documented behaviour.                                             *)

SelectAll(s) == SetSelection(s, -1, -1)

\* a variant that goes to the start of the text
SetInsertionPointEnd_Start(s) == SetInsertionPoint(s, 0)

SetInsertionPointEnd(s) == SetInsertionPoint(s, -1)

GetValue(s) == s.buf

\* DoSetValue(value, flags): events are suppressed unless SetValue_SendEvent
\* is given, everything is selected and replaced by value
DoSetValue(s, value, flags) ==
    LET suppress == (flags % 2) # SetValue_SendEvent
        s1 == EventsSuppressorCtor(s, suppress)
        s2 == SelectAll(s1)
        s3 == WriteText(s2, value)
    IN  EventsSuppressorDtor(s3, suppress)

\* a variant that passes the wrong flag
SetValue_NoEventFlag(s, value) == DoSetValue(s, value, SetValue_NoEvent)

SetValue(s, value) == DoSetValue(s, value, SetValue_SendEvent)

ChangeValue(s, value) == DoSetValue(s, value, SetValue_NoEvent)

Clear(s) == SetValue(s, <<>>)

\* AppendText(text): the insertion point goes to the end, the text is written
\* with events suppressed, then one notification is allowed
AppendText(s, text) ==
    LET s1 == SetInsertionPointEnd(s)
        s2 == EventsSuppressorCtor(s1, TRUE)
        s3 == WriteText(s2, text)
        s4 == EventsSuppressorDtor(s3, TRUE)
    IN  SendTextUpdatedEventIfAllowed(s4)

\* Replace(from, to, value): Remove and WriteText with events suppressed, then
\* one notification at the end
Replace(s, from, to, value) ==
    LET s1 == EventsSuppressorCtor(s, TRUE)
        s2 == Remove(s1, from, to)
        s3 == WriteText(s2, value)
        s4 == EventsSuppressorDtor(s3, TRUE)
    IN  SendTextUpdatedEventIfAllowed(s4)

----------------------------------------------------------------------------
(* The state machine *)

\* flag is the boolean argument of the operation; for AppendText, which has
\* none, whether there was a selection when it was called
Op(name, text, from, to, flag) ==
    [name |-> name, text |-> text, from |-> from, to |-> to, flag |-> flag]

\* the operation `op` takes the entry to r
Commit(op, r) ==
    /\ buf' = r.buf
    /\ selFrom' = r.selFrom
    /\ selTo' = r.selTo
    /\ editable' = r.editable
    /\ m_eventsBlock' = r.m_eventsBlock
    /\ enabled' = r.enabled
    /\ events' = r.events
    /\ hooks' = r.hooks
    /\ lastOp' = op
    /\ pre' = [m_eventsBlock |-> m_eventsBlock, enabled |-> enabled]

Init ==
    /\ buf = <<>>
    /\ selFrom = 0
    /\ selTo = 0
    /\ editable = TRUE
    /\ m_eventsBlock = Zero
    /\ enabled = TRUE
    /\ guards = <<>>
    /\ events = <<>>
    /\ hooks = <<>>
    /\ fwdNet = 0
    /\ lastOp = Op("ctor", <<>>, 0, 0, FALSE)
    /\ pre = [m_eventsBlock |-> Zero, enabled |-> TRUE]

DoSetValueOp ==
    \E value \in Texts(MaxText) :
        /\ Commit(Op("SetValue", value, 0, 0, FALSE), SetValue(Start, value))
        /\ UNCHANGED <<guards, fwdNet>>

DoChangeValue ==
    \E value \in Texts(MaxText) :
        /\ Commit(Op("ChangeValue", value, 0, 0, FALSE), ChangeValue(Start, value))
        /\ UNCHANGED <<guards, fwdNet>>

DoClear ==
    /\ Commit(Op("Clear", <<>>, 0, 0, FALSE), Clear(Start))
    /\ UNCHANGED <<guards, fwdNet>>

DoWriteText ==
    \E text \in Texts(MaxText) :
        /\ Len(buf) - (selTo - selFrom) + Len(text) <= MaxLen
        /\ Commit(Op("WriteText", <<>>, 0, 0, FALSE), WriteText(Start, text))
        /\ UNCHANGED <<guards, fwdNet>>

DoAppendText ==
    \E text \in Texts(MaxText) :
        /\ Len(buf) + Len(text) <= MaxLen
        /\ Commit(Op("AppendText", text, 0, 0, selFrom # selTo),
                  AppendText(Start, text))
        /\ UNCHANGED <<guards, fwdNet>>

DoReplace ==
    \E from \in 0..Len(buf), value \in Texts(MaxText) :
        \E to \in from..Len(buf) :
            /\ Len(buf) - (to - from) + Len(value) <= MaxLen
            /\ Commit(Op("Replace", value, from, to, FALSE),
                      Replace(Start, from, to, value))
            /\ UNCHANGED <<guards, fwdNet>>

DoRemove ==
    \E from \in 0..Len(buf) :
        \E to \in from..Len(buf) :
            /\ Commit(Op("Remove", <<>>, 0, 0, FALSE), Remove(Start, from, to))
            /\ UNCHANGED <<guards, fwdNet>>

DoSetSelection ==
    \E from \in 0..Len(buf) :
        \E to \in from..Len(buf) :
            /\ Commit(Op("SetSelection", <<>>, 0, 0, FALSE),
                      SetSelection(Start, from, to))
            /\ UNCHANGED <<guards, fwdNet>>

DoSelectAll ==
    /\ Commit(Op("SelectAll", <<>>, 0, 0, FALSE), SelectAll(Start))
    /\ UNCHANGED <<guards, fwdNet>>

DoSetInsertionPoint ==
    \E pos \in 0..Len(buf) :
        /\ Commit(Op("SetInsertionPoint", <<>>, 0, 0, FALSE),
                  SetInsertionPoint(Start, pos))
        /\ UNCHANGED <<guards, fwdNet>>

DoSetEditable ==
    \E e \in BOOLEAN :
        /\ Commit(Op("SetEditable", <<>>, 0, 0, FALSE), SetEditable(Start, e))
        /\ UNCHANGED <<guards, fwdNet>>

DoSendTextUpdatedEventIfAllowed ==
    /\ Commit(Op("SendTextUpdatedEventIfAllowed", <<>>, 0, 0, FALSE),
              SendTextUpdatedEventIfAllowed(Start))
    /\ UNCHANGED <<guards, fwdNet>>

DoForwardEnableTextChangedEvents ==
    \E enable \in BOOLEAN :
        LET r == ForwardEnableTextChangedEvents(Start, enable)
        IN  /\ r.m_eventsBlock \in CounterWindow
            /\ Commit(Op("ForwardEnableTextChangedEvents", <<>>, 0, 0, enable), r)
            /\ fwdNet' = IF enable THEN fwdNet - 1 ELSE fwdNet + 1
            /\ UNCHANGED guards

\* an EventsSuppressor is constructed: a scope is entered
Acquire ==
    \E suppress \in BOOLEAN :
        LET r == EventsSuppressorCtor(Start, suppress)
        IN  /\ Len(guards) < MaxGuards
            /\ r.m_eventsBlock \in CounterWindow
            /\ Commit(Op("EventsSuppressor", <<>>, 0, 0, suppress), r)
            /\ guards' = Append(guards, suppress)
            /\ UNCHANGED fwdNet

\* the innermost EventsSuppressor is destroyed: its scope is left
Release ==
    /\ guards # <<>>
    /\ Commit(Op("~EventsSuppressor", <<>>, 0, 0, guards[Len(guards)]),
              EventsSuppressorDtor(Start, guards[Len(guards)]))
    /\ guards' = Prefix(guards, Len(guards) - 1)
    /\ UNCHANGED fwdNet

Next ==
    \/ DoSetValueOp
    \/ DoChangeValue
    \/ DoClear
    \/ DoWriteText
    \/ DoAppendText
    \/ DoReplace
    \/ DoRemove
    \/ DoSetSelection
    \/ DoSelectAll
    \/ DoSetInsertionPoint
    \/ DoSetEditable
    \/ DoSendTextUpdatedEventIfAllowed
    \/ DoForwardEnableTextChangedEvents
    \/ Acquire
    \/ Release

Spec == Init /\ [][Next]_vars

----------------------------------------------------------------------------
(* Properties.  In a step, the unprimed variables are the entry before the *)
(* operation lastOp' and the primed ones the entry after it.               *)

SuppressingGuards == Cardinality({i \in 1..Len(guards) : guards[i]})

\* suppressions not yet resumed: by live guards and by ForwardEnable calls
Outstanding == SuppressingGuards + fwdNet

\* C1: SetValue(T) leaves GetValue() = T; called with the counter at zero it
\* delivers exactly one notification (which sees T), called with the counter
\* nonzero it delivers none.
C1_SetValue ==
    [][lastOp'.name = "SetValue" =>
        /\ GetValue(Cur)' = lastOp'.text
        /\ m_eventsBlock = Zero => events' = <<lastOp'.text>>
        /\ m_eventsBlock # Zero => events' = <<>>]_vars

C1_Witness ==
    /\ lastOp.name = "SetValue"
    /\ lastOp.text # <<>>
    /\ pre.m_eventsBlock = Zero
    /\ GetValue(Cur) = lastOp.text
    /\ Len(events) = 1

\* C2: ChangeValue(T) leaves GetValue() = T, delivers no notification whatever
\* the counter and the editable flag are, and leaves the counter as it was.
C2_ChangeValue ==
    [][lastOp'.name = "ChangeValue" =>
        /\ GetValue(Cur)' = lastOp'.text
        /\ events' = <<>>
        /\ m_eventsBlock' = m_eventsBlock]_vars

\* C3: Replace(from, to, V) on buffer B with events allowed leaves
\* B[0:from] + V + B[to:] and delivers exactly one notification, which sees
\* the buffer after both the removal and the insertion.
C3_Replace ==
    [][lastOp'.name = "Replace" /\ m_eventsBlock = Zero =>
        /\ buf' = Prefix(buf, lastOp'.from) \o lastOp'.text \o Suffix(buf, lastOp'.to)
        /\ events' = <<buf'>>]_vars

C3_Witness ==
    /\ lastOp.name = "Replace"
    /\ lastOp.from < lastOp.to
    /\ lastOp.text # <<>>
    /\ pre.m_eventsBlock = Zero
    /\ events = <<buf>>

\* C4: AppendText(T) on buffer B with events allowed, whatever the selection,
\* leaves B + T, leaves no selection and delivers exactly one notification.
C4_AppendText ==
    [][lastOp'.name = "AppendText" /\ m_eventsBlock = Zero =>
        /\ buf' = buf \o lastOp'.text
        /\ selFrom' = selTo'
        /\ events' = <<buf'>>]_vars

C4_Witness ==
    /\ lastOp.name = "AppendText"
    /\ lastOp.flag
    /\ lastOp.text # <<>>
    /\ pre.m_eventsBlock = Zero
    /\ selFrom = selTo
    /\ Len(events) = 1

\* C5: guards nest.  As long as the ForwardEnable calls cancel out, the counter
\* is the number of live suppressing guards, and EventsAllowed() is true
\* exactly when there is none.
C5_Nesting ==
    fwdNet = 0 =>
        /\ m_eventsBlock = U(SuppressingGuards)
        /\ EventsAllowed(Cur) <=> SuppressingGuards = 0

\* two guards were acquired and one has been released: still suppressed
C5_Witness ==
    /\ lastOp.name = "~EventsSuppressor"
    /\ lastOp.flag
    /\ guards = <<TRUE>>
    /\ fwdNet = 0
    /\ m_eventsBlock = U(1)
    /\ ~EventsAllowed(Cur)

\* C6: the counter is the number of suppressions not yet resumed, which is
\* never negative: no resumption happens at 0 and the counter never wraps.
C6_Balanced ==
    /\ Outstanding >= 0
    /\ m_eventsBlock = U(Outstanding)

\* C7: SendTextUpdatedEventIfAllowed() dispatches one notification when the
\* counter is zero and none otherwise, and changes neither counter nor text.
C7_SendIfAllowed ==
    [][lastOp'.name = "SendTextUpdatedEventIfAllowed" =>
        /\ m_eventsBlock = Zero => events' = <<buf>>
        /\ m_eventsBlock # Zero => events' = <<>>
        /\ m_eventsBlock' = m_eventsBlock
        /\ buf' = buf]_vars

C7_Witness ==
    /\ lastOp.name = "SendTextUpdatedEventIfAllowed"
    /\ m_eventsBlock = Zero
    /\ buf # <<>>
    /\ events = <<buf>>

\* C8: the hook is called with false exactly on the counter's step from 0 to
\* 1 and with true exactly on its step from 1 to 0, so the calls alternate
\* and the backend's flag is true exactly when the counter is 0.
C8_HookOnEdges ==
    [][/\ lastOp'.name \in {"EventsSuppressor", "~EventsSuppressor",
                           "ForwardEnableTextChangedEvents"} =>
            hooks' = IF m_eventsBlock = Zero /\ m_eventsBlock' = U(1) THEN <<FALSE>>
                     ELSE IF m_eventsBlock = U(1) /\ m_eventsBlock' = Zero THEN <<TRUE>>
                     ELSE <<>>
       /\ \A i \in 1..Len(hooks') :
            hooks'[i] # (IF i = 1 THEN enabled ELSE hooks'[i - 1])
       /\ enabled' <=> m_eventsBlock' = Zero]_vars

\* C9: ForwardEnableTextChangedEvents(false) increments the counter, so that
\* EventsAllowed() is false afterwards; (true) decrements it; false then true
\* restores the counter and the backend's flag.
C9_Forward ==
    [][lastOp'.name = "ForwardEnableTextChangedEvents" =>
        /\ ~lastOp'.flag =>
            /\ m_eventsBlock' = Inc(m_eventsBlock)
            /\ ~EventsAllowed(Cur)'
        /\ lastOp'.flag =>
            /\ m_eventsBlock' = Dec(m_eventsBlock)
            /\ lastOp.name = "ForwardEnableTextChangedEvents" /\ ~lastOp.flag =>
                /\ m_eventsBlock' = pre.m_eventsBlock
                /\ enabled' = pre.enabled]_vars

\* C10: constructing or destroying an EventsSuppressor with suppress = false
\* changes nothing and calls no hook; with suppress = true the constructor
\* increments the counter once and the destructor decrements it once.  The
\* destructor acts on the flag its constructor was given.
C10_Suppressor ==
    [][/\ lastOp'.name = "EventsSuppressor" =>
            /\ guards' = Append(guards, lastOp'.flag)
            /\ m_eventsBlock' = IF lastOp'.flag THEN Inc(m_eventsBlock) ELSE m_eventsBlock
            /\ ~lastOp'.flag => hooks' = <<>> /\ enabled' = enabled
       /\ lastOp'.name = "~EventsSuppressor" =>
            /\ guards = Append(guards', lastOp'.flag)
            /\ m_eventsBlock' = IF lastOp'.flag THEN Dec(m_eventsBlock) ELSE m_eventsBlock
            /\ ~lastOp'.flag => hooks' = <<>> /\ enabled' = enabled]_vars

\* a guard that does not suppress is destroyed while another one suppresses
C10_Witness ==
    /\ lastOp.name = "~EventsSuppressor"
    /\ ~lastOp.flag
    /\ guards = <<TRUE>>
    /\ m_eventsBlock = U(1)
    /\ pre.m_eventsBlock = U(1)
    /\ hooks = <<>>

====
